---------------------------- MODULE Spec2Model ----------------------------
(***************************************************************************)
(* Microbial-risk assessment engine of backend/app/services/               *)
(* microbial_risk.py: the WHO-threshold rule evaluator, the score-to-label *)
(* mapping, the rule-only assessment and the classifier-backed predict,    *)
(* the labelling and training of the construction, and the route           *)
(* backend/app/routes/microbial_risk.py with the cached predictor behind   *)
(* get_microbial_risk_predictor; the backfill tool                         *)
(* backend/tools/backfill_microbial_risk.py; and the retry wrappers of the *)
(* chat services backend/app/services/gemini.py and groq_llm.py.           *)
(*                                                                         *)
(* The specifications share the variables: Spec (the rule engine called    *)
(* directly), SpecTrain (one construction), SpecPredict (predict on a      *)
(* constructed predictor), SpecService (requests served by threads),       *)
(* SpecFetch and SpecUpdate (the two loops of the backfill tool) and       *)
(* SpecRetry (runs of _call_with_retry).                                   *)
(*                                                                         *)
(* Real numbers are fixed-point: a finite value is whole + frac / 10^5     *)
(* with 0 <= frac < 10^5, one decimal more than the 4 decimals that the    *)
(* presentation layer rounds to, so that rounding is not the identity.     *)
(***************************************************************************)
EXTENDS Integers, Sequences, FiniteSets, TLC

VARIABLES
    features,     \* the feature dict of the latest call
    assessment,   \* what the latest assess_microbial_risk_rules call returned
    first,        \* the first call of the session: its features and its result
    other_calls,  \* whether a call with other features than the first's was made
    predictor,    \* the MicrobialRiskPredictor of the process, once constructed
    prediction,   \* what the latest predict call returned (or raised)
    dataset,      \* the content of the file at DATASET_PATH, or Absent
    frame,        \* the labelled training frame of the construction, once loaded
    cache,        \* what lru_cache holds for get_microbial_risk_predictor
    threads,      \* the worker threads of the server, each in a request or idle
    history,      \* what happened in the process: counts and returned instances
    fetch,        \* the run of _fetch_all_rows of the backfill tool
    update,       \* the run of _update_rows of the backfill tool
    retry         \* the run of _call_with_retry of a chat service

training_vars == <<dataset, frame>>

service_vars == <<cache, threads, history>>

tool_vars == <<fetch, update, retry>>

vars == <<features, assessment, first, other_calls, predictor, prediction,
          training_vars, service_vars, tool_vars>>

---------------------------------------------------------------------------
(* Bounds of the model *)

\* The worker threads that serve requests, and the requests of a process
MaxThreads == 2
MaxRequests == 3

\* At most this many fields of a feature set carry an edge-case value (a
\* non-finite value, a value exactly on a threshold, a pH at or just under the
\* lower threshold) next to null and violating values.
MaxEdgeFields == 1

\* At most this many rows in a training dataset.
MaxRows == 3

\* At most this many rows in the table the backfill tool reads
MaxTableRows == 1001

\* At most this many rows in the list the backfill tool writes back
MaxUpdates == 3

\* At most this many calls of _call_with_retry in a process
MaxInvocations == 2

---------------------------------------------------------------------------
(* Values: Optional[float] *)

\* round(x, 4): the number of decimals kept for presentation
ROUND_DIGITS == 4

FracUnits == 10 ^ (ROUND_DIGITS + 1)

Num(w, f) == [kind |-> "num", whole |-> w, frac |-> f]
None == [kind |-> "None", whole |-> 0, frac |-> 0]
NaN == [kind |-> "nan", whole |-> 0, frac |-> 0]
PosInf == [kind |-> "inf", whole |-> 0, frac |-> 0]
NegInf == [kind |-> "-inf", whole |-> 0, frac |-> 0]

\* Variant: np.isnan in place of np.isfinite, so that an infinite value passes
isfinite_not_nan(v) == v.kind \notin {"None", "nan"}

\* np.isfinite(value)
isfinite(v) == v.kind = "num"

\* IEEE-754 a < b on floats: false whenever a NaN is involved
Lt(a, b) ==
    CASE a.kind = "nan" \/ b.kind = "nan" -> FALSE
      [] a.kind = "-inf" -> b.kind # "-inf"
      [] a.kind = "inf" -> FALSE
      [] b.kind = "inf" -> TRUE
      [] b.kind = "-inf" -> FALSE
      [] OTHER -> a.whole < b.whole \/ (a.whole = b.whole /\ a.frac < b.frac)

\* IEEE-754 a > b
Gt(a, b) == Lt(b, a)

\* round(x, 4) of a finite float: to the nearest multiple of 10^-4, a tie
\* (which no value of the model is) to the even one
round4(v) ==
    LET q == v.frac \div 10
        r == v.frac % 10
        up == r > 5 \/ (r = 5 /\ q % 2 = 1)
        f == (IF up THEN q + 1 ELSE q) * 10
    IN  IF f = FracUnits THEN Num(v.whole + 1, 0) ELSE Num(v.whole, f)

---------------------------------------------------------------------------
(* Static tables *)

FEATURE_COLUMNS ==
    << "ph", "hardness", "solids", "chloramines", "sulfate", "conductivity",
       "organic_carbon", "trihalomethanes", "turbidity" >>

Fields == {FEATURE_COLUMNS[i] : i \in 1..Len(FEATURE_COLUMNS)}

\* A condition_fn of the table as data: lambda v: v > above, or for pH
\* lambda v: v < below or v > above
Above(hi) == [has_below |-> FALSE, below |-> hi, above |-> hi]
Outside(lo, hi) == [has_below |-> TRUE, below |-> lo, above |-> hi]

WHO_THRESHOLDS ==
    << [field |-> "ph", rule |-> "pH outside 6.5-8.5 range",
        test |-> Outside(Num(6, 50000), Num(8, 50000)), weight |-> 2,
        bacteria |-> <<"Escherichia coli", "Salmonella spp.", "Vibrio cholerae">>],
       [field |-> "hardness", rule |-> "Hardness > 300 mg/L",
        test |-> Above(Num(300, 0)), weight |-> 1,
        bacteria |-> <<"Legionella pneumophila", "Pseudomonas aeruginosa">>],
       [field |-> "solids", rule |-> "TDS > 27,000 ppm (high dissolved solids)",
        test |-> Above(Num(27000, 0)), weight |-> 1,
        bacteria |-> <<"E. coli", "Enterobacter spp.">>],
       [field |-> "chloramines", rule |-> "Chloramines > 9 ppm (high residual)",
        test |-> Above(Num(9, 0)), weight |-> 2,
        bacteria |-> <<"Mycobacterium avium", "Legionella pneumophila",
                       "Pseudomonas aeruginosa">>],
       [field |-> "sulfate", rule |-> "Sulfate > 400 mg/L",
        test |-> Above(Num(400, 0)), weight |-> 1,
        bacteria |-> <<"Clostridium spp.", "Desulfovibrio spp.", "E. coli">>],
       [field |-> "conductivity", rule |-> "Conductivity > 700 uS/cm",
        test |-> Above(Num(700, 0)), weight |-> 1,
        bacteria |-> <<"E. coli", "Klebsiella spp.", "Enterococcus spp.">>],
       [field |-> "organic_carbon", rule |-> "TOC > 18 ppm (nutrient-rich for biofilms)",
        test |-> Above(Num(18, 0)), weight |-> 2,
        bacteria |-> <<"E. coli", "Salmonella spp.", "Campylobacter jejuni",
                       "Pseudomonas aeruginosa">>],
       [field |-> "trihalomethanes",
        rule |-> "THMs > 80 ug/L (elevated disinfection byproducts)",
        test |-> Above(Num(80, 0)), weight |-> 1,
        bacteria |-> <<"E. coli", "Enteric bacteria (risk-based)">>],
       [field |-> "turbidity", rule |-> "Turbidity > 4 NTU (pathogen shielding risk)",
        test |-> Above(Num(4, 0)), weight |-> 3,
        bacteria |-> <<"E. coli", "Vibrio cholerae", "Salmonella spp.",
                       "Shigella spp.">>] >>

WHO_METADATA ==
    [f \in Fields |->
        CASE f = "ph" ->
                [health_risk |-> "GI irritation, reduced disinfection efficiency",
                 biofilm |-> "Biofilm formation", unit |-> ""]
          [] f = "hardness" ->
                [health_risk |-> "Scaling, aesthetic issues",
                 biofilm |-> "Pipe scale biofilms", unit |-> "mg/L"]
          [] f = "solids" ->
                [health_risk |-> "GI distress, dehydration",
                 biofilm |-> "Mineral-associated biofilms", unit |-> "ppm"]
          [] f = "chloramines" ->
                [health_risk |-> "Eye, nose, stomach irritation",
                 biofilm |-> "Chloramine-resistant biofilms", unit |-> "ppm"]
          [] f = "sulfate" ->
                [health_risk |-> "Diarrhea, dehydration",
                 biofilm |-> "Anaerobic biofilms", unit |-> "mg/L"]
          [] f = "conductivity" ->
                [health_risk |-> "Salinity stress, GI discomfort",
                 biofilm |-> "Ion-rich biofilms", unit |-> "uS/cm"]
          [] f = "organic_carbon" ->
                [health_risk |-> "Increased DBPs, microbial regrowth",
                 biofilm |-> "Nutrient-rich biofilms", unit |-> "ppm"]
          [] f = "trihalomethanes" ->
                [health_risk |-> "Long-term cancer risk",
                 biofilm |-> "Indirect indicator (organic contamination)",
                 unit |-> "ug/L"]
          [] OTHER ->
                [health_risk |-> "Pathogen shielding, infection risk",
                 biofilm |-> "Particle-attached biofilms", unit |-> "NTU"]]

\* The rule of the table for field f
RuleOf(f) ==
    WHO_THRESHOLDS[CHOOSE i \in 1..Len(WHO_THRESHOLDS) : WHO_THRESHOLDS[i].field = f]

RECURSIVE SumWeights(_, _)
SumWeights(table, i) ==
    IF i > Len(table) THEN 0 ELSE table[i].weight + SumWeights(table, i + 1)

\* Maximum possible weighted score, computed once when the module is loaded
_MAX_SCORE == SumWeights(WHO_THRESHOLDS, 1)

\* Fractions of the maximum score, in hundredths: 0.40 and 0.20
HIGH_THRESHOLD == 40
MEDIUM_THRESHOLD == 20

RISK_LABELS == <<"low", "medium", "high">>

---------------------------------------------------------------------------
(* Rule-based scoring *)

\* Variant: only a null value is skipped, the finiteness check is missing
skipped_none_only(value) == value = None

\* "value is None or not np.isfinite(value)": the rule is skipped
skipped(value) == value = None \/ ~isfinite(value)

\* Variant: the two-sided condition joined with "and" instead of "or"
test_fn_and(test, value) ==
    IF test.has_below
    THEN Lt(value, test.below) /\ Gt(value, test.above)
    ELSE Gt(value, test.above)

\* test_fn(value) for a condition of the table
test_fn(test, value) ==
    (test.has_below /\ Lt(value, test.below)) \/ Gt(value, test.above)

\* The MicrobialViolation appended for rule r triggered by value
MicrobialViolation(r, value) ==
    [field |-> r.field, rule |-> r.rule, value |-> value, weight |-> r.weight,
     bacteria |-> r.bacteria,
     health_risk |-> WHO_METADATA[r.field].health_risk,
     biofilm |-> WHO_METADATA[r.field].biofilm,
     unit |-> WHO_METADATA[r.field].unit]

\* Variant: a missing value read as 0.0, as features.get(field) or 0.0 would
get_or_zero(fs, field) ==
    IF field \notin DOMAIN fs \/ fs[field] = None THEN Num(0, 0) ELSE fs[field]

\* features.get(field): None for a key the dict does not hold
get(fs, field) == IF field \in DOMAIN fs THEN fs[field] ELSE None

\* Variant: "score = weight" instead of "score += weight"
add_violation_assign(acc, r, value) ==
    [score |-> r.weight,
     violations |-> Append(acc.violations, MicrobialViolation(r, value))]

\* "score += weight" and "violations.append(MicrobialViolation(...))"
add_violation(acc, r, value) ==
    [score |-> acc.score + r.weight,
     violations |-> Append(acc.violations, MicrobialViolation(r, value))]

\* The for loop of compute_microbial_score from rule i on, with the running
\* score and violations list
RECURSIVE score_loop(_, _, _, _)
score_loop(table, fs, i, acc) ==
    IF i > Len(table) THEN acc
    ELSE LET r == table[i]
             value == get(fs, r.field)
         IN  IF skipped(value) THEN score_loop(table, fs, i + 1, acc)
             ELSE IF test_fn(r.test, value)
                  THEN score_loop(table, fs, i + 1, add_violation(acc, r, value))
                  ELSE score_loop(table, fs, i + 1, acc)

compute_microbial_score(fs) ==
    score_loop(WHO_THRESHOLDS, fs, 1, [score |-> 0, violations |-> <<>>])

\* Variant: the thresholds hand-rounded to the integers int(5.6) and int(2.8)
score_to_risk_label_rounded(score) ==
    IF score >= (_MAX_SCORE * HIGH_THRESHOLD) \div 100 THEN "high"
    ELSE IF score >= (_MAX_SCORE * MEDIUM_THRESHOLD) \div 100 THEN "medium"
    ELSE "low"

\* Variant: the medium comparison turned round
score_to_risk_label_flipped(score) ==
    IF score * 100 >= _MAX_SCORE * HIGH_THRESHOLD THEN "high"
    ELSE IF score * 100 <= _MAX_SCORE * MEDIUM_THRESHOLD THEN "medium"
    ELSE "low"

\* score >= _MAX_SCORE * HIGH_THRESHOLD, both sides scaled by 100; the float
\* products 14 * 0.40 and 14 * 0.20 lie strictly between two integers, so the
\* comparison with an integer score is the exact one
score_to_risk_label(score) ==
    IF score * 100 >= _MAX_SCORE * HIGH_THRESHOLD THEN "high"
    ELSE IF score * 100 >= _MAX_SCORE * MEDIUM_THRESHOLD THEN "medium"
    ELSE "low"

\* Variant: the set kept at module level and never cleared, so that it still
\* holds the names collected by the call before
seen_stale ==
    {assessment.possible_bacteria[i] : i \in 1..Len(assessment.possible_bacteria)}

\* "seen = set()": the set of names already collected, at the start of a call
seen_init == {}

\* Variant: the membership test is missing
not_seen_always(b, seen) == TRUE

\* "if b not in seen"
not_seen(b, seen) == b \notin seen

\* "for b in v.bacteria": append the names not seen yet
RECURSIVE bacteria_loop(_, _, _)
bacteria_loop(bacteria, j, acc) ==
    IF j > Len(bacteria) THEN acc
    ELSE LET b == bacteria[j]
         IN  IF not_seen(b, acc.seen)
             THEN bacteria_loop(bacteria, j + 1,
                    [all_bacteria |-> Append(acc.all_bacteria, b),
                     seen |-> acc.seen \cup {b}])
             ELSE bacteria_loop(bacteria, j + 1, acc)

\* "for v in violations"
RECURSIVE violations_loop(_, _, _)
violations_loop(violations, i, acc) ==
    IF i > Len(violations) THEN acc
    ELSE violations_loop(violations, i + 1,
                         bacteria_loop(violations[i].bacteria, 1, acc))

MicrobialAssessment(risk_level, score, max_score, violations, possible_bacteria) ==
    [risk_level |-> risk_level, score |-> score, max_score |-> max_score,
     violations |-> violations, possible_bacteria |-> possible_bacteria,
     predicted_by_model |-> FALSE]

\* Variant: the maximum taken over the rules whose field the sample supplies
assess_max_of_supplied(fs) ==
    LET cs == compute_microbial_score(fs)
        acc == violations_loop(cs.violations, 1,
                               [all_bacteria |-> <<>>, seen |-> seen_init])
        supplied == SelectSeq(WHO_THRESHOLDS, LAMBDA r : ~skipped(get(fs, r.field)))
    IN  MicrobialAssessment(score_to_risk_label(cs.score), cs.score,
                            SumWeights(supplied, 1), cs.violations, acc.all_bacteria)

assess_microbial_risk_rules(fs) ==
    LET cs == compute_microbial_score(fs)
        acc == violations_loop(cs.violations, 1,
                               [all_bacteria |-> <<>>, seen |-> seen_init])
    IN  MicrobialAssessment(score_to_risk_label(cs.score), cs.score, _MAX_SCORE,
                            cs.violations, acc.all_bacteria)

---------------------------------------------------------------------------
(* Inputs: the feature sets of the model *)

\* The in-range sample of the specification
SafeValue ==
    [f \in Fields |->
        CASE f = "ph" -> Num(7, 0)
          [] f = "hardness" -> Num(150, 0)
          [] f = "solids" -> Num(500, 0)
          [] f = "chloramines" -> Num(2, 0)
          [] f = "sulfate" -> Num(100, 0)
          [] f = "conductivity" -> Num(300, 0)
          [] f = "organic_carbon" -> Num(5, 0)
          [] f = "trihalomethanes" -> Num(20, 0)
          [] OTHER -> Num(1, 0)]

\* One value per field that violates its rule
ViolatingValue ==
    [f \in Fields |->
        CASE f = "ph" -> Num(9, 0)
          [] f = "hardness" -> Num(323, 0)
          [] f = "solids" -> Num(27000, 1)
          [] f = "chloramines" -> Num(9, 50000)
          [] f = "sulfate" -> Num(481, 0)
          [] f = "conductivity" -> Num(753, 12000)
          [] f = "organic_carbon" -> Num(18, 4)
          [] f = "trihalomethanes" -> Num(80, 12346)
          [] OTHER -> Num(5, 0)]

\* The value exactly on the (upper) threshold of a field: not a violation
OnThreshold(f) == RuleOf(f).test.above

\* A non-finite value per field
NonFinite ==
    [f \in Fields |->
        CASE f \in {"ph", "chloramines", "organic_carbon"} -> NaN
          [] f \in {"solids", "conductivity"} -> NegInf
          [] OTHER -> PosInf]

\* The edge-case values of each field
EdgeValueSets ==
    [f \in Fields |->
        {NonFinite[f], OnThreshold(f)}
            \cup (IF f = "ph" THEN {Num(6, 49999), Num(6, 50000)} ELSE {})]

EdgeValues(f) == EdgeValueSets[f]

Values(f) == {None, SafeValue[f], ViolatingValue[f]} \cup EdgeValues(f)

AllNull == [f \in Fields |-> None]

\* The fields of fs that carry an edge-case value
EdgeFields(fs) == {f \in Fields : fs[f] \in EdgeValues(f)}

\* The feature sets of the model: every mix of safe-sample and violating
\* values, and every mix of null and violating values with edge-case values
\* in up to MaxEdgeFields fields
InBounds(fs) ==
    \/ \A f \in Fields : fs[f] \in {SafeValue[f], ViolatingValue[f]}
    \/ /\ \A f \in Fields : fs[f] \in {None, ViolatingValue[f]} \cup EdgeValues(f)
       /\ Cardinality(EdgeFields(fs)) <= MaxEdgeFields

\* pH = 9.0 and turbidity = 5.0, every other field null
ExampleTwoViolations ==
    [AllNull EXCEPT !["ph"] = Num(9, 0), !["turbidity"] = Num(5, 0)]

\* The feature sets a session starts with
FirstFeatureSets == {ExampleTwoViolations, ViolatingValue}

---------------------------------------------------------------------------
(* The rule engine called in a session *)

NoAssessment == MicrobialAssessment("", 0, 0, <<>>, <<>>)
NoCall == [features |-> AllNull, assessment |-> NoAssessment]
NoPredictor == [trained |-> FALSE]
NoPrediction == [status |-> "none"]
Absent == <<>>
NoFrame == <<>>

\* A reference to a predictor object: id tells the objects apart
NoInstance == [id |-> 0, object |-> NoPredictor]
NoResponse == [status_code |-> 0, body |-> <<>>]
Threads == 1..MaxThreads

\* A thread outside a request
IdleThread ==
    [pc |-> "idle", payload |-> AllNull, predictor |-> NoInstance,
     constructs |-> FALSE, raised |-> "", response |-> NoResponse]

NoHistory == [requests |-> 0, constructions |-> 0, failed |-> 0, trainings |-> 0,
              returned |-> {}]

\* The service at the start of the process
ServiceInit ==
    /\ cache = NoInstance
    /\ threads = [t \in Threads |-> IdleThread]
    /\ history = NoHistory

\* No server: the engine is called directly
NoService ==
    /\ cache = NoInstance
    /\ threads = <<>>
    /\ history = NoHistory

\* The backfill tool and the chat services are not running
NoFetch == [pc |-> "idle", table |-> <<>>, offset |-> 0, all_rows |-> <<>>,
            requested |-> <<>>]
NoUpdate == [pc |-> "idle", updates |-> <<>>, i |-> 0, success |-> 0,
             attempted |-> <<>>, raised |-> {}, returned |-> 0]
NoRetry ==
    [run |-> [pc |-> "idle", wrapper |-> "", attempt |-> 0, outcomes |-> <<>>,
              waits |-> <<>>, result |-> [type |-> "", code |-> 0]],
     completed |-> <<>>]

NoTools ==
    /\ fetch = NoFetch
    /\ update = NoUpdate
    /\ retry = NoRetry

Init ==
    /\ features = AllNull
    /\ assessment = NoAssessment
    /\ first = NoCall
    /\ other_calls = FALSE
    /\ predictor = NoPredictor
    /\ prediction = NoPrediction
    /\ dataset = Absent
    /\ frame = NoFrame
    /\ NoService
    /\ NoTools

\* The first call assess_microbial_risk_rules(fs) of the session
FirstCall(fs) ==
    /\ first = NoCall
    /\ features' = fs
    /\ assessment' = assess_microbial_risk_rules(fs)
    /\ first' = [features |-> fs, assessment |-> assessment']
    /\ UNCHANGED <<other_calls, predictor, prediction, training_vars, service_vars,
                   tool_vars>>

\* A later call, with the features of the call before changed in one field
\* (or in none)
NextCall(f, value) ==
    /\ first # NoCall
    /\ features' = [features EXCEPT ![f] = value]
    /\ InBounds(features')
    /\ assessment' = assess_microbial_risk_rules(features')
    /\ other_calls' = (other_calls \/ features' # first.features)
    /\ UNCHANGED <<first, predictor, prediction, training_vars, service_vars,
                   tool_vars>>

Next ==
    \/ \E fs \in FirstFeatureSets : FirstCall(fs)
    \/ \E f \in Fields : \E value \in Values(f) : NextCall(f, value)

Spec == Init /\ [][Next]_vars

---------------------------------------------------------------------------
(* Labelling and training *)

\* pd.isna(v)
isna(v) == v.kind \in {"None", "nan"}

\* The label label_dataframe attaches to a row: NaN replaced by None, then
\* compute_microbial_score and score_to_risk_label
label_row(row) ==
    LET fs == [f \in Fields |-> IF isna(row[f]) THEN None ELSE row[f]]
    IN  score_to_risk_label(compute_microbial_score(fs).score)

\* The microbial_risk column label_dataframe adds to a frame (a sequence of rows)
label_dataframe(df) == [i \in 1..Len(df) |-> label_row(df[i])]

\* A frame is a non-empty sequence of rows, each a function from the frame's
\* column names to cells
columns(df) == DOMAIN df[1]

COLUMN_MAP ==
    [c \in {"ph", "Hardness", "Solids", "Chloramines", "Sulfate", "Conductivity",
            "Organic_carbon", "Trihalomethanes", "Turbidity", "Potability"} |->
        CASE c = "ph" -> "ph"
          [] c = "Hardness" -> "hardness"
          [] c = "Solids" -> "solids"
          [] c = "Chloramines" -> "chloramines"
          [] c = "Sulfate" -> "sulfate"
          [] c = "Conductivity" -> "conductivity"
          [] c = "Organic_carbon" -> "organic_carbon"
          [] c = "Trihalomethanes" -> "trihalomethanes"
          [] c = "Turbidity" -> "turbidity"
          [] OTHER -> "is_potable"]

\* A COLUMN_MAP that knows the schema's own names only
rename_map_lowercase_only(c) == c

\* rename[c] for a column of the file, and the column itself without an entry
rename_map(c) == IF c \in DOMAIN COLUMN_MAP THEN COLUMN_MAP[c] ELSE c

\* df.rename(columns=rename)
rename(df) ==
    [i \in 1..Len(df) |->
        [c \in {rename_map(old) : old \in columns(df)} |->
            df[i][CHOOSE old \in columns(df) : rename_map(old) = c]]]

\* "if col not in df.columns: df[col] = np.nan", for every feature column
fill_missing(df) ==
    [i \in 1..Len(df) |->
        [c \in columns(df) \cup Fields |-> IF c \in columns(df) THEN df[i][c] ELSE NaN]]

\* df["microbial_risk"] = risks
with_microbial_risk(df, risks) ==
    [i \in 1..Len(df) |->
        [c \in columns(df) \cup {"microbial_risk"} |->
            IF c = "microbial_risk" THEN risks[i] ELSE df[i][c]]]

\* MicrobialRiskPredictor._load_training_frame on the content of the file
_load_training_frame(csv) ==
    with_microbial_risk(fill_missing(rename(csv)),
                        label_dataframe(fill_missing(rename(csv))))

\* label_encoder.transform with classes_ = LABEL_ENCODER_CLASSES: the 0-based
\* position of the label in ("low", "medium", "high")
transform(label) == (CHOOSE i \in 1..Len(RISK_LABELS) : RISK_LABELS[i] = label) - 1

\* label_encoder.inverse_transform([idx])[0]
inverse_transform(idx) == RISK_LABELS[idx + 1]

\* The classes_ a classifier fitted on y learns: the sorted distinct values of y
RECURSIVE sorted_unique(_, _)
sorted_unique(values, from) ==
    IF from > Len(RISK_LABELS) - 1 THEN <<>>
    ELSE (IF from \in values THEN <<from>> ELSE <<>>) \o sorted_unique(values, from + 1)

classes_of(y) == sorted_unique({y[i] : i \in 1..Len(y)}, 0)

\* Rows of a training file: missing cells are NaN
TrainingRows ==
    { SafeValue,
      [f \in Fields |-> IF ExampleTwoViolations[f] = None THEN NaN
                        ELSE ExampleTwoViolations[f]],
      ViolatingValue }

RECURSIVE SeqsUpTo(_, _)
SeqsUpTo(S, n) ==
    IF n = 0 THEN {<<>>}
    ELSE LET shorter == SeqsUpTo(S, n - 1)
         IN  shorter \cup {Append(q, x) : q \in shorter, x \in S}

Datasets == SeqsUpTo(TrainingRows, MaxRows) \ {<<>>}

\* The fitted forest is not computed: it is one of a few fixed functions from
\* the imputed row to a distribution over the classes it learned, here a split
\* on turbidity at 4.0 with a distribution for each side. A missing turbidity
\* is imputed with the training median. Probabilities are fixed-point too.
P(f) == Num(0, f)
Certain == Num(1, 0)
SplitField == "turbidity"
SplitAt == Num(4, 0)
Median == Num(3, 96000)

LeafPairs(n) ==
    CASE n = 3 ->
            { << <<P(70000), P(20000), P(10000)>>, <<P(10000), P(30000), P(60000)>> >>,
              << <<P(40000), P(40000), P(20000)>>, <<P(12344), P(33333), P(54323)>> >>,
              << <<P(20000), P(55555), P(24445)>>, <<P(70000), P(20000), P(10000)>> >> }
      [] n = 2 ->
            { << <<P(50000), P(50000)>>, <<P(25006), P(74994)>> >>,
              << <<P(25006), P(74994)>>, <<P(90000), P(10000)>> >> }
      [] OTHER -> { << <<Certain>>, <<Certain>> >> }

\* pipeline.fit(X, y); leaves is the fit's outcome
fit(y, leaves) == [classes |-> classes_of(y), le |-> leaves[1], gt |-> leaves[2]]

\* The encoded labels of a labelled frame
encoded_labels(df) == [i \in 1..Len(df) |-> transform(df[i]["microbial_risk"])]

\* _train_pipeline on the file's content: the frame is loaded and labelled,
\* the labels are encoded and the pipeline fitted
train_pipeline(csv, leaves) == fit(encoded_labels(_load_training_frame(csv)), leaves)

\* settings.supabase_samples_table: the configuration is not part of these
\* sources; the table name is opaque to the engine
supabase_samples_table == "field_samples"

\* MicrobialRiskPredictor.__init__
MicrobialRiskPredictor(df, leaves) ==
    [trained |-> TRUE,
     pipeline |-> train_pipeline(df, leaves),
     model_version |-> "microbial_rf_v1",
     samples_table |-> supabase_samples_table]

\* The outcomes of a fit on the file's content
Fits(csv) == LeafPairs(Len(classes_of(encoded_labels(_load_training_frame(csv)))))

Predictors ==
    UNION { { MicrobialRiskPredictor(df, leaves) : leaves \in Fits(df) } :
            df \in Datasets }

\* A file in the historical layout: the capitalised column names and the
\* potability flag
Potable == {Num(0, 0), Num(1, 0)}

InfRow == [ViolatingValue EXCEPT !["solids"] = PosInf, !["sulfate"] = NaN]

CsvRows ==
    { [c \in DOMAIN COLUMN_MAP |->
          IF c = "Potability" THEN potable ELSE row[COLUMN_MAP[c]]] :
      row \in TrainingRows \cup {InfRow}, potable \in Potable }

\* The files differ in their columns too: a feature column or the flag may
\* be missing
ColumnSets ==
    { DOMAIN COLUMN_MAP, DOMAIN COLUMN_MAP \ {"Turbidity"},
      DOMAIN COLUMN_MAP \ {"Potability"} }

CsvFiles ==
    { [i \in 1..Len(rows) |-> [c \in cols |-> rows[i][c]]] :
      rows \in SeqsUpTo(CsvRows, MaxRows) \ {<<>>}, cols \in ColumnSets }
        \cup Datasets

\* The fit validates its input: an infinite cell makes it raise ValueError
fit_raises(df) ==
    \E i \in 1..Len(df) : \E f \in Fields : df[i][f].kind \in {"inf", "-inf"}

InitTrain ==
    /\ dataset \in CsvFiles
    /\ frame = NoFrame
    /\ predictor = NoPredictor
    /\ features = AllNull
    /\ assessment = NoAssessment
    /\ first = NoCall
    /\ other_calls = FALSE
    /\ prediction = NoPrediction
    /\ NoService
    /\ NoTools

\* _load_training_frame(), the first step of _train_pipeline
LoadTrainingFrame ==
    /\ dataset # Absent
    /\ frame = NoFrame
    /\ frame' = _load_training_frame(dataset)
    /\ UNCHANGED <<features, assessment, first, other_calls, predictor, prediction,
                   dataset, service_vars, tool_vars>>

\* The rest of _train_pipeline and of __init__: the fit on the labelled
\* frame, and the predictor when the fit does not raise
FitPipeline ==
    /\ frame # NoFrame
    /\ predictor = NoPredictor
    /\ ~fit_raises(frame)
    /\ \E leaves \in Fits(dataset) : predictor' = MicrobialRiskPredictor(dataset, leaves)
    /\ UNCHANGED <<features, assessment, first, other_calls, prediction, training_vars,
                   service_vars, tool_vars>>

NextTrain == LoadTrainingFrame \/ FitPipeline

SpecTrain == InitTrain /\ [][NextTrain]_vars

---------------------------------------------------------------------------
(* Prediction *)

\* Variant: a classifier that keeps state between calls: once a request of
\* the process has been answered, the other side's distribution comes back
predict_proba_stateful(pipeline, row) ==
    LET x == IF row[SplitField].kind = "nan" THEN Median ELSE row[SplitField]
        warm == \E t \in DOMAIN threads : threads[t].pc = "done"
    IN  IF Gt(x, SplitAt) = warm THEN pipeline.le ELSE pipeline.gt

\* pipeline.predict_proba(frame)[0] for a row without infinite values: the
\* imputer replaces NaN by the median, the model gives one probability per
\* learned class
predict_proba(pipeline, row) ==
    LET x == IF row[SplitField].kind = "nan" THEN Median ELSE row[SplitField]
    IN  IF Gt(x, SplitAt) THEN pipeline.gt ELSE pipeline.le

\* int(np.argmax(probas)): the 0-based index of the first maximum
argmax(probas) ==
    (CHOOSE i \in 1..Len(probas) :
        /\ \A j \in 1..Len(probas) : ~Gt(probas[j], probas[i])
        /\ \A j \in 1..(i - 1) : Lt(probas[j], probas[i])) - 1

\* One entry of "microbial_violations"
violation_dict(v) ==
    [field |-> v.field, rule |-> v.rule,
     value |-> IF v.value # None THEN round4(v.value) ELSE None,
     weight |-> v.weight, bacteria |-> v.bacteria, health_risk |-> v.health_risk,
     biofilm |-> v.biofilm, unit |-> v.unit]

\* The "microbial_violations" list of a result
violation_dicts(violations) ==
    [i \in 1..Len(violations) |-> violation_dict(violations[i])]

\* "result = {...}": the dict predict returns (without its timestamp)
result(predicted_label, class_probabilities, rules_assessment, model_version) ==
    [status |-> "ok",
     microbial_risk_level |-> predicted_label,
     microbial_risk_probabilities |-> class_probabilities,
     microbial_score |-> rules_assessment.score,
     microbial_max_score |-> rules_assessment.max_score,
     microbial_violations |-> violation_dicts(rules_assessment.violations),
     possible_bacteria |-> rules_assessment.possible_bacteria,
     predicted_by_model |-> TRUE,
     model_version |-> model_version]

\* The result predict builds for features the pipeline accepts, given the
\* rules_assessment of these features
predict_result(p, fs, rules_assessment) ==
    LET row == [f \in Fields |-> IF fs[f] = None THEN NaN ELSE fs[f]]
        probas == predict_proba(p.pipeline, row)
        predicted_idx == argmax(probas)
        predicted_label == inverse_transform(predicted_idx)
        class_probabilities ==
            [l \in {inverse_transform(i - 1) : i \in 1..Len(probas)} |->
                round4(probas[transform(l) + 1])]
    IN  result(predicted_label, class_probabilities, rules_assessment, p.model_version)

\* MicrobialRiskPredictor.predict for features the pipeline accepts
predict(p, fs) == predict_result(p, fs, assess_microbial_risk_rules(fs))

\* MicrobialAssessment.as_dict
as_dict(a) ==
    [microbial_risk_level |-> a.risk_level,
     microbial_score |-> a.score,
     microbial_max_score |-> a.max_score,
     microbial_violations |-> violation_dicts(a.violations),
     possible_bacteria |-> a.possible_bacteria,
     predicted_by_model |-> a.predicted_by_model]

\* The input validation of the fitted pipeline rejects an infinite value
ValueError == [status |-> "ValueError"]

\* get_supabase_client() is not part of these sources. It is the persistence
\* collaborator of the design: it hands out no client when persistence is
\* disabled, a client when it is enabled, and it can fail.
NoClient == "no client"
Client == "client"
ClientFails == "get_supabase_client raises"
get_supabase_client == {NoClient, Client, ClientFails}

\* What a failing collaborator raises: not a ValueError
PersistenceError == [status |-> "Exception"]

\* MicrobialRiskPredictor._persist_update: it asks for the client, returns
\* early without client or table and does nothing otherwise; nothing in it
\* catches what get_supabase_client raises
_persist_update(client, samples_table) ==
    IF client = ClientFails THEN "raised"
    ELSE IF client = NoClient \/ samples_table = "" THEN "returned"
    ELSE "returned"

\* The values a field takes in the calls of predict
PredictValues(f) ==
    {None, ViolatingValue[f]}
        \cup (IF f = SplitField THEN {SafeValue[f], NonFinite[f], OnThreshold(f)}
              ELSE IF f = "ph" THEN {NaN}
              ELSE {})

InitPredict ==
    /\ predictor \in Predictors
    /\ features = AllNull
    /\ assessment = NoAssessment
    /\ first = NoCall
    /\ other_calls = FALSE
    /\ prediction = NoPrediction
    /\ dataset = Absent
    /\ frame = NoFrame
    /\ NoService
    /\ NoTools

\* Variant: predict stamps the version of the instance it ran on
self_after_predict_stamped(p) == [p EXCEPT !.model_version = "microbial_rf_v1 (used)"]

\* The attributes of self after predict and _persist_update: neither assigns
\* an attribute of self nor calls a method that does
self_after_predict(p) == p

\* What the call predictor.predict(fs) gives its caller when
\* get_supabase_client behaves as client: the pipeline's ValueError, what the
\* persistence hook raises, or the result
predict_call(p, fs, client) ==
    IF \E g \in Fields : fs[g].kind \in {"inf", "-inf"} THEN ValueError
    ELSE IF _persist_update(client, p.samples_table) = "raised" THEN PersistenceError
    ELSE predict(p, fs)

\* predictor.predict(features): the features of the call before changed in
\* one field (or in none); assessment is the rules_assessment of this call
\* (none when the pipeline raised before it), and the persistence hook runs
\* last, with whatever get_supabase_client does. The result's timestamp is
\* left out.
PredictCall(f, value) ==
    /\ predictor.trained
    /\ features' = [features EXCEPT ![f] = value]
    /\ InBounds(features')
    /\ IF \E g \in Fields : features'[g].kind \in {"inf", "-inf"}
       THEN /\ prediction' = ValueError
            /\ assessment' = NoAssessment
       ELSE /\ assessment' = assess_microbial_risk_rules(features')
            /\ \E persisted \in {_persist_update(client, predictor.samples_table) :
                                     client \in get_supabase_client} :
                 prediction' = IF persisted = "raised" THEN PersistenceError
                               ELSE predict_result(predictor, features', assessment')
    /\ predictor' = self_after_predict(predictor)
    /\ UNCHANGED <<first, other_calls, training_vars, service_vars, tool_vars>>

NextPredict ==
    \E f \in Fields : \E value \in PredictValues(f) : PredictCall(f, value)

SpecPredict == InitPredict /\ [][NextPredict]_vars

---------------------------------------------------------------------------
(* The service: the route POST /microbial-risk, served by worker threads,    *)
(* and the cached predictor behind get_microbial_risk_predictor              *)

\* The payloads of the requests: no field, one field, two fields, and two
\* fields of which one is infinite
OneField == [AllNull EXCEPT !["turbidity"] = ViolatingValue["turbidity"]]
InfiniteField == [ExampleTwoViolations EXCEPT !["turbidity"] = PosInf]
Payloads == {AllNull, OneField, ExampleTwoViolations, InfiniteField}

\* The files the process may find at DATASET_PATH: one whose rows get all
\* three labels, one whose rows are all medium
ServiceDatasets ==
    { [i \in 1..3 |-> [c \in DOMAIN COLUMN_MAP |->
          IF c = "Potability" THEN Num(0, 0)
          ELSE (<<SafeValue, ExampleTwoViolations, ViolatingValue>>[i])[COLUMN_MAP[c]]]],
      <<ExampleTwoViolations>> }

\* The fit is deterministic (random_state=42): one outcome per file
fitted(csv) == CHOOSE leaves \in Fits(csv) : TRUE

\* What MicrobialRiskPredictor() constructs from each of these files
Constructed == [csv \in ServiceDatasets |-> MicrobialRiskPredictor(csv, fitted(csv))]

\* self.dataset_path.exists(), without the check
exists_always(file) == TRUE

\* self.dataset_path.exists()
exists(file) == file # Absent

\* A cache that stores every computed result
lru_store_overwrite(cached, instance) == instance

\* lru_cache after the call of the wrapped function: the result is stored
\* unless the key was added to the cache during the call
lru_store(cached, instance) == IF cached = NoInstance THEN instance ELSE cached

\* A handler that turns every exception of predict into a 400
translate_any(exc) == "HTTPException(400)"

\* "except ValueError as exc: raise HTTPException(status_code=400, ...)"
translate(exc) == IF exc = "ValueError" THEN "HTTPException(400)" ELSE exc

\* The status the framework answers with: that of an HTTPException, 500 for
\* any other exception that leaves the handler, 200 otherwise
status_code(raised) ==
    IF raised = "" THEN 200
    ELSE IF raised = "HTTPException(400)" THEN 400
    ELSE 500

\* "provided = [v for v in features.values() if v is not None]"
provided(fs) == {f \in Fields : fs[f] # None}

InitService ==
    /\ dataset \in ServiceDatasets \cup {Absent}
    /\ frame = NoFrame
    /\ predictor = NoPredictor
    /\ features = AllNull
    /\ assessment = NoAssessment
    /\ first = NoCall
    /\ other_calls = FALSE
    /\ prediction = NoPrediction
    /\ ServiceInit
    /\ NoTools

\* A request arrives and thread t starts assess_microbial_risk(payload)
Request(t, payload) ==
    /\ threads[t].pc \in {"idle", "done"}
    /\ history.requests < MaxRequests
    /\ threads' = [threads EXCEPT ![t] = [IdleThread EXCEPT !.pc = "get", !.payload = payload]]
    /\ history' = [history EXCEPT !.requests = @ + 1]
    /\ UNCHANGED <<features, assessment, first, other_calls, predictor, prediction,
                   training_vars, cache, tool_vars>>

\* get_microbial_risk_predictor(): lru_cache looks the key up; a hit returns
\* the cached instance, a miss goes on to call MicrobialRiskPredictor()
CacheLookup(t) ==
    /\ threads[t].pc = "get"
    /\ IF cache # NoInstance
       THEN /\ threads' = [threads EXCEPT ![t].pc = "route", ![t].predictor = cache]
            /\ history' = [history EXCEPT !.returned = @ \cup {cache.id}]
       ELSE /\ threads' = [threads EXCEPT ![t].pc = "init"]
            /\ UNCHANGED history
    /\ UNCHANGED <<features, assessment, first, other_calls, predictor, prediction,
                   training_vars, cache, tool_vars>>

\* MicrobialRiskPredictor.__init__ up to the check of the file: without the
\* file it raises FileNotFoundError, which leaves the handler; lru_cache
\* stores nothing for a call that raised
InitPredictor(t) ==
    /\ threads[t].pc = "init"
    /\ IF exists(dataset)
       THEN /\ threads' = [threads EXCEPT ![t].pc = "train", ![t].constructs = TRUE]
            /\ history' = [history EXCEPT !.constructions = @ + 1]
       ELSE /\ threads' = [threads EXCEPT
                   ![t].pc = "done", ![t].constructs = TRUE,
                   ![t].raised = "FileNotFoundError",
                   ![t].response = [status_code |-> status_code("FileNotFoundError"),
                                    body |-> <<>>]]
            /\ history' = [history EXCEPT !.constructions = @ + 1, !.failed = @ + 1]
    /\ UNCHANGED <<features, assessment, first, other_calls, predictor, prediction,
                   training_vars, cache, tool_vars>>

\* The rest of __init__: _train_pipeline (pd.read_csv raises without the
\* file), model_version and samples_table; then lru_cache stores the
\* instance and the call returns it
TrainPipeline(t) ==
    /\ threads[t].pc = "train"
    /\ IF dataset = Absent
       THEN /\ threads' = [threads EXCEPT
                   ![t].pc = "done", ![t].raised = "FileNotFoundError",
                   ![t].response = [status_code |-> status_code("FileNotFoundError"),
                                    body |-> <<>>]]
            /\ history' = [history EXCEPT !.failed = @ + 1]
            /\ UNCHANGED cache
       ELSE LET instance == [id |-> history.trainings + 1,
                             object |-> Constructed[dataset]]
            IN  /\ cache' = lru_store(cache, instance)
                /\ threads' = [threads EXCEPT ![t].pc = "route", ![t].predictor = instance]
                /\ history' = [history EXCEPT !.trainings = @ + 1,
                                              !.returned = @ \cup {instance.id}]
    /\ UNCHANGED <<features, assessment, first, other_calls, predictor, prediction,
                   training_vars, tool_vars>>

\* What the handler does with the predictor: it rejects a payload with fewer
\* than two fields, else it calls predict and answers with the result.
\* raised is the exception that occurred, leaves the one that leaves the
\* handler: what predict raises passes the handler's except clause
respond(instance, payload, client) ==
    IF Cardinality(provided(payload)) < 2
    THEN [raised |-> "HTTPException(400)", leaves |-> "HTTPException(400)", body |-> <<>>]
    ELSE LET outcome == predict_call(instance.object, payload, client)
         IN  IF outcome = ValueError
             THEN [raised |-> "ValueError", leaves |-> translate("ValueError"),
                   body |-> <<>>]
             ELSE IF outcome = PersistenceError
                  THEN [raised |-> "Exception", leaves |-> translate("Exception"),
                        body |-> <<>>]
             ELSE [raised |-> "", leaves |-> "", body |-> outcome]

\* The handler after get_microbial_risk_predictor() returned
Respond(t) ==
    /\ threads[t].pc = "route"
    /\ \E r \in {respond(threads[t].predictor, threads[t].payload, client) :
                    client \in get_supabase_client} :
          threads' = [threads EXCEPT
              ![t].pc = "done", ![t].raised = r.raised,
              ![t].response = [status_code |-> status_code(r.leaves), body |-> r.body]]
    /\ UNCHANGED <<features, assessment, first, other_calls, predictor, prediction,
                   training_vars, cache, history, tool_vars>>

NextService ==
    \E t \in Threads :
        \/ \E payload \in Payloads : Request(t, payload)
        \/ CacheLookup(t)
        \/ InitPredictor(t)
        \/ TrainPipeline(t)
        \/ Respond(t)

SpecService == InitService /\ [][NextService]_vars

---------------------------------------------------------------------------
(* The backfill tool: backend/tools/backfill_microbial_risk.py *)

\* The tool's own copy of the rule table: field, test_fn, weight
backfill_WHO_THRESHOLDS ==
    << [field |-> "ph", test |-> Outside(Num(6, 50000), Num(8, 50000)), weight |-> 2],
       [field |-> "hardness", test |-> Above(Num(300, 0)), weight |-> 1],
       [field |-> "solids", test |-> Above(Num(27000, 0)), weight |-> 1],
       [field |-> "chloramines", test |-> Above(Num(9, 0)), weight |-> 2],
       [field |-> "sulfate", test |-> Above(Num(400, 0)), weight |-> 1],
       [field |-> "conductivity", test |-> Above(Num(700, 0)), weight |-> 1],
       [field |-> "organic_carbon", test |-> Above(Num(18, 0)), weight |-> 2],
       [field |-> "trihalomethanes", test |-> Above(Num(80, 0)), weight |-> 1],
       [field |-> "turbidity", test |-> Above(Num(4, 0)), weight |-> 3] >>

\* Variant: the number of rules taken for the maximum score
backfill_MAX_SCORE_rules == Len(backfill_WHO_THRESHOLDS)

\* _MAX_SCORE of the tool: sum(w for _, _, w in WHO_THRESHOLDS)
backfill_MAX_SCORE == SumWeights(backfill_WHO_THRESHOLDS, 1)

\* HIGH_THRESHOLD = 0.40 and MEDIUM_THRESHOLD = 0.20 of the tool, in hundredths
backfill_HIGH_THRESHOLD == 40
backfill_MEDIUM_THRESHOLD == 20

\* float(val) raises TypeError or ValueError: val is no number
float_raises(val) == val.kind \notin {"num", "nan", "inf", "-inf"}

\* The for loop of _compute_risk from rule i on, with the running score
RECURSIVE compute_risk_loop(_, _, _)
compute_risk_loop(row, i, score) ==
    IF i > Len(backfill_WHO_THRESHOLDS) THEN score
    ELSE LET r == backfill_WHO_THRESHOLDS[i]
             val == get(row, r.field)
         IN  IF val = None THEN compute_risk_loop(row, i + 1, score)
             ELSE IF float_raises(val) THEN compute_risk_loop(row, i + 1, score)
             ELSE IF ~isfinite(val) THEN compute_risk_loop(row, i + 1, score)
             ELSE IF test_fn(r.test, val)
                  THEN compute_risk_loop(row, i + 1, score + r.weight)
                  ELSE compute_risk_loop(row, i + 1, score)

\* _compute_risk(row): the label of a row of the table
_compute_risk(row) ==
    LET score == compute_risk_loop(row, 1, 0)
    IN  IF score * 100 >= backfill_MAX_SCORE * backfill_HIGH_THRESHOLD THEN "high"
        ELSE IF score * 100 >= backfill_MAX_SCORE * backfill_MEDIUM_THRESHOLD THEN "medium"
        ELSE "low"

\* BATCH_SIZE = 500: rows per SELECT page
BATCH_SIZE == 500

\* The tables the tool may find: a row is its id, the ids in table order
Tables == {[i \in 1..n |-> i] : n \in 0..MaxTableRows}

\* client.table(TABLE_NAME).select(...).range(from, to).execute().data: the
\* rows at the positions from..to of the table, counted from 0, both ends
\* included, as far as the table has them
range(table, from, to) ==
    IF from >= Len(table) THEN <<>>
    ELSE SubSeq(table, from + 1, IF to + 1 < Len(table) THEN to + 1 ELSE Len(table))

\* Variant: a full page ends the loop as well
short_page_or_full(data) == Len(data) <= BATCH_SIZE

\* "if len(data) < BATCH_SIZE: break"
short_page(data) == Len(data) < BATCH_SIZE

InitFetch ==
    /\ fetch \in {[NoFetch EXCEPT !.pc = "fetch", !.table = table] : table \in Tables}
    /\ update = NoUpdate
    /\ retry = NoRetry
    /\ features = AllNull
    /\ assessment = NoAssessment
    /\ first = NoCall
    /\ other_calls = FALSE
    /\ predictor = NoPredictor
    /\ prediction = NoPrediction
    /\ dataset = Absent
    /\ frame = NoFrame
    /\ NoService

\* One turn of the while loop of _fetch_all_rows: a page is requested, an
\* empty page ends the loop, any other page is appended, a short page ends
\* the loop, a full page moves the offset; the function returns all_rows
\* when the loop ends
FetchPage ==
    /\ fetch.pc = "fetch"
    /\ LET to == fetch.offset + BATCH_SIZE - 1
           data == range(fetch.table, fetch.offset, to)
           requested == Append(fetch.requested, [from |-> fetch.offset, to |-> to])
       IN  fetch' =
             IF data = <<>>
             THEN [fetch EXCEPT !.pc = "returned", !.requested = requested]
             ELSE IF short_page(data)
             THEN [fetch EXCEPT !.pc = "returned", !.requested = requested,
                                !.all_rows = @ \o data]
             ELSE [fetch EXCEPT !.requested = requested, !.all_rows = @ \o data,
                                !.offset = @ + BATCH_SIZE]
    /\ UNCHANGED <<features, assessment, first, other_calls, predictor, prediction,
                   training_vars, service_vars, update, retry>>

NextFetch == FetchPage

\* The loop runs on: nothing but the answer of the server holds it up
SpecFetch == InitFetch /\ [][NextFetch]_vars /\ WF_vars(NextFetch)

\* The sample rows the table holds
BackfillSamples == {AllNull, ExampleTwoViolations, ViolatingValue}

\* The lists of rows main gets from _fetch_all_rows: it returns before the
\* update when there is none; the id of a row is its position
BackfillRows ==
    { [i \in 1..Len(q) |-> [k \in Fields \cup {"id"} |-> IF k = "id" THEN i ELSE q[i][k]]] :
      q \in SeqsUpTo(BackfillSamples, MaxUpdates) \ {<<>>} }

\* "updates.append({"id": row["id"], "microbial_risk": risk})" for every row
updates_of(rows) ==
    [i \in 1..Len(rows) |->
        [id |-> rows[i]["id"], microbial_risk |-> _compute_risk(rows[i])]]

\* Variant: the first failure ends the loop
on_exception_break(u, upd) ==
    [u EXCEPT !.raised = @ \cup {upd.id}, !.i = Len(u.updates)]

\* "except Exception: logger.exception(...)": the failure is logged and the
\* loop goes on with the next row
on_exception(u, upd) == [u EXCEPT !.raised = @ \cup {upd.id}, !.i = @ + 1]

InitUpdate ==
    /\ update \in {[NoUpdate EXCEPT !.pc = "loop", !.updates = updates_of(rows)] :
                       rows \in BackfillRows}
    /\ fetch = NoFetch
    /\ retry = NoRetry
    /\ features = AllNull
    /\ assessment = NoAssessment
    /\ first = NoCall
    /\ other_calls = FALSE
    /\ predictor = NoPredictor
    /\ prediction = NoPrediction
    /\ dataset = Absent
    /\ frame = NoFrame
    /\ NoService

\* One turn of the for loop of _update_rows: the update of the next row is
\* sent, and either it raises or success is counted
UpdateRow(raises) ==
    /\ update.pc = "loop"
    /\ update.i < Len(update.updates)
    /\ LET upd == update.updates[update.i + 1]
           sent == [update EXCEPT !.attempted = Append(@, upd)]
       IN  update' = IF raises THEN on_exception(sent, upd)
                     ELSE [sent EXCEPT !.success = @ + 1, !.i = @ + 1]
    /\ UNCHANGED <<features, assessment, first, other_calls, predictor, prediction,
                   training_vars, service_vars, fetch, retry>>

\* "return success" after the loop
UpdateReturn ==
    /\ update.pc = "loop"
    /\ update.i = Len(update.updates)
    /\ update' = [update EXCEPT !.pc = "returned", !.returned = update.success]
    /\ UNCHANGED <<features, assessment, first, other_calls, predictor, prediction,
                   training_vars, service_vars, fetch, retry>>

NextUpdate ==
    \/ \E raises \in BOOLEAN : UpdateRow(raises)
    \/ UpdateReturn

SpecUpdate == InitUpdate /\ [][NextUpdate]_vars

---------------------------------------------------------------------------
(* The retry wrappers of the chat services: backend/app/services/gemini.py *)
(* and backend/app/services/groq_llm.py                                     *)

\* _MAX_RETRIES = 3 and _INITIAL_BACKOFF = 5 (seconds) of gemini.py
_MAX_RETRIES == 3
_INITIAL_BACKOFF == 5

\* The same two constants of groq_llm.py
groq_MAX_RETRIES == 3
groq_INITIAL_BACKOFF == 5

\* What a call of fn gives: a response, or an exception of the client library
Response == [type |-> "response", code |-> 200]
ClientError(code) == [type |-> "ClientError", code |-> code]
ServerError == [type |-> "ServerError", code |-> 503]
RateLimitError == [type |-> "RateLimitError", code |-> 429]
APIConnectionError == [type |-> "APIConnectionError", code |-> 0]
NoResult == [type |-> "", code |-> 0]

\* The outcomes of the call fn(*args, **kwargs) in each service
GeminiOutcomes == {Response, ClientError(429), ClientError(400), ServerError}
GroqOutcomes == {Response, RateLimitError, APIConnectionError}

\* Variant: the status code of the error is not looked at
gemini_retries_any(exc, attempt) == attempt < _MAX_RETRIES - 1

\* "if exc.code == 429 and attempt < _MAX_RETRIES - 1" of gemini.py
gemini_retries(exc, attempt) == exc.code = 429 /\ attempt < _MAX_RETRIES - 1

\* "if attempt < _MAX_RETRIES - 1" of groq_llm.py
groq_retries(exc, attempt) == attempt < groq_MAX_RETRIES - 1

\* "wait = _INITIAL_BACKOFF * (2 ** attempt)"
gemini_wait(attempt) == _INITIAL_BACKOFF * (2 ^ attempt)
groq_wait(attempt) == groq_INITIAL_BACKOFF * (2 ^ attempt)

\* The run r after time.sleep(wait): the for loop takes the next attempt, or
\* is over, and then the function returns None
after_sleep(r, wait, max_retries) ==
    LET slept == [r EXCEPT !.waits = Append(@, wait), !.attempt = @ + 1]
    IN  IF slept.attempt < max_retries THEN slept
        ELSE [slept EXCEPT !.pc = "returned", !.result = NoResult]

\* One turn of the for loop of _call_with_retry of gemini.py, fn giving
\* outcome
gemini_call_with_retry(r, outcome) ==
    LET called == [r EXCEPT !.outcomes = Append(@, outcome)]
    IN  IF outcome = Response
        THEN [called EXCEPT !.pc = "returned", !.result = outcome]
        ELSE IF outcome.type = "ClientError"
        THEN IF gemini_retries(outcome, r.attempt)
             THEN after_sleep(called, gemini_wait(r.attempt), _MAX_RETRIES)
             ELSE [called EXCEPT !.pc = "raised", !.result = outcome]
        ELSE [called EXCEPT !.pc = "raised", !.result = outcome]

\* One turn of the for loop of _call_with_retry of groq_llm.py
groq_call_with_retry(r, outcome) ==
    LET called == [r EXCEPT !.outcomes = Append(@, outcome)]
    IN  IF outcome = Response
        THEN [called EXCEPT !.pc = "returned", !.result = outcome]
        ELSE IF outcome.type = "RateLimitError"
        THEN IF groq_retries(outcome, r.attempt)
             THEN after_sleep(called, groq_wait(r.attempt), groq_MAX_RETRIES)
             ELSE [called EXCEPT !.pc = "raised", !.result = outcome]
        ELSE [called EXCEPT !.pc = "raised", !.result = outcome]

\* A run of _call_with_retry at its start
NewRun(wrapper) ==
    [pc |-> "call", wrapper |-> wrapper, attempt |-> 0, outcomes |-> <<>>,
     waits |-> <<>>, result |-> NoResult]

InitRetry ==
    /\ retry = NoRetry
    /\ fetch = NoFetch
    /\ update = NoUpdate
    /\ features = AllNull
    /\ assessment = NoAssessment
    /\ first = NoCall
    /\ other_calls = FALSE
    /\ predictor = NoPredictor
    /\ prediction = NoPrediction
    /\ dataset = Absent
    /\ frame = NoFrame
    /\ NoService

\* A chat request makes its service call _call_with_retry(fn, ...); the run
\* before, if any, is over and kept in completed
Invoke(wrapper) ==
    /\ retry.run.pc \in {"idle", "returned", "raised"}
    /\ Len(retry.completed) + (IF retry.run.pc = "idle" THEN 0 ELSE 1) < MaxInvocations
    /\ retry' = [run |-> NewRun(wrapper),
                 completed |-> IF retry.run.pc = "idle" THEN retry.completed
                               ELSE Append(retry.completed, retry.run)]
    /\ UNCHANGED <<features, assessment, first, other_calls, predictor, prediction,
                   training_vars, service_vars, fetch, update>>

\* The next attempt of the run of the Gemini service
GeminiAttempt(outcome) ==
    /\ retry.run.pc = "call"
    /\ retry.run.wrapper = "gemini"
    /\ retry' = [retry EXCEPT !.run = gemini_call_with_retry(@, outcome)]
    /\ UNCHANGED <<features, assessment, first, other_calls, predictor, prediction,
                   training_vars, service_vars, fetch, update>>

\* The next attempt of the run of the Groq service
GroqAttempt(outcome) ==
    /\ retry.run.pc = "call"
    /\ retry.run.wrapper = "groq"
    /\ retry' = [retry EXCEPT !.run = groq_call_with_retry(@, outcome)]
    /\ UNCHANGED <<features, assessment, first, other_calls, predictor, prediction,
                   training_vars, service_vars, fetch, update>>

NextRetry ==
    \/ \E wrapper \in {"gemini", "groq"} : Invoke(wrapper)
    \/ \E outcome \in GeminiOutcomes : GeminiAttempt(outcome)
    \/ \E outcome \in GroqOutcomes : GroqAttempt(outcome)

SpecRetry == InitRetry /\ [][NextRetry]_vars

---------------------------------------------------------------------------
(* Properties of the rule engine *)

Called == first # NoCall

\* The field f of fs is present, finite and satisfies its rule's predicate
Triggered(fs, f) == fs[f].kind = "num" /\ test_fn(RuleOf(f).test, fs[f])

Rank(label) == CASE label = "low" -> 0 [] label = "medium" -> 1 [] label = "high" -> 2

RECURSIVE Flatten(_, _)
Flatten(violations, i) ==
    IF i > Len(violations) THEN <<>>
    ELSE violations[i].bacteria \o Flatten(violations, i + 1)

FirstIndex(seq, x) == CHOOSE i \in 1..Len(seq) : seq[i] = x /\ \A j \in 1..(i - 1) : seq[j] # x

ExpectedLabel(score) ==
    IF score >= 6 THEN "high" ELSE IF score >= 3 THEN "medium" ELSE "low"

\* C1: score_to_risk_label maps every integer score in 0..14 to "high" exactly
\* when score >= 6, to "medium" exactly when 3 <= score <= 5 and to "low"
\* exactly when score <= 2; so does the label of every assessment returned.
C1_ScoreToLabel ==
    /\ \A s \in 0..14 : score_to_risk_label(s) = ExpectedLabel(s)
    /\ Called => assessment.risk_level = ExpectedLabel(assessment.score)

C1_Witness ==
    /\ first.assessment.score = 5 /\ first.assessment.risk_level = "medium"
    /\ assessment.score = 6 /\ assessment.risk_level = "high"

RuleOrder ==
    << "ph", "hardness", "solids", "chloramines", "sulfate", "conductivity",
       "organic_carbon", "trihalomethanes", "turbidity" >>

\* C2: the score returned is an integer in 0..14 and the sum of the weights of
\* the violations returned; the violations are exactly the rules whose field
\* is present, finite and satisfies the predicate, in rule declaration order,
\* each with the triggering value and the rule's weight.
C2_ScoreAndViolations ==
    Called =>
        LET V == assessment.violations
            expected == SelectSeq(RuleOrder, LAMBDA f : Triggered(features, f))
        IN  /\ assessment.score \in 0..14
            /\ assessment.score = SumWeights(V, 1)
            /\ Len(V) = Len(expected)
            /\ \A k \in 1..Len(V) :
                  /\ V[k].field = expected[k]
                  /\ V[k].value = features[expected[k]]
                  /\ V[k].weight = RuleOf(expected[k]).weight

\* A call with a non-finite field and violations whose declaration order is
\* not the order of decreasing weight
C2_Witness ==
    /\ Called
    /\ \E f \in Fields : features[f].kind \in {"nan", "inf", "-inf"}
    /\ Len(assessment.violations) >= 2
    /\ assessment.violations[1].weight < assessment.violations[2].weight

\* C4: when no rule is triggered (every field null, non-finite or inside its
\* safe range) the rule engine yields score 0, no violation and label low.
C4_NothingTriggered ==
    (Called /\ \A f \in Fields : ~Triggered(features, f)) =>
        /\ assessment.score = 0
        /\ assessment.violations = <<>>
        /\ assessment.risk_level = "low"

C4_Witness ==
    /\ Called /\ features = SafeValue
    /\ assessment.score = 0 /\ assessment.violations = <<>>
    /\ assessment.risk_level = "low"

\* C5: when each of the nine fields has a finite value that triggers its rule
\* the rule engine yields score 14, nine violations and label high.
C5_EverythingTriggered ==
    (Called /\ \A f \in Fields : Triggered(features, f)) =>
        /\ assessment.score = 14
        /\ Len(assessment.violations) = 9
        /\ assessment.risk_level = "high"

C5_Witness ==
    /\ Called /\ features = [ViolatingValue EXCEPT !["ph"] = Num(6, 49999)]
    /\ assessment.score = 14 /\ assessment.risk_level = "high"

\* The call made in this step has the features of the call before with one
\* more rule violated: one field that was null or not violating is violating
OneMoreViolated ==
    \E f \in Fields :
        /\ features' = [features EXCEPT ![f] = features'[f]]
        /\ ~Triggered(features, f)
        /\ Triggered(features', f)

\* C6: a call whose features differ from those of the call before in one more
\* violated rule returns a score and a label that are not lower.
C6_Monotone ==
    [][(Called /\ OneMoreViolated) =>
          /\ assessment'.score >= assessment.score
          /\ Rank(assessment'.risk_level) >= Rank(assessment.risk_level)]_vars

\* The call after the first with hardness, null before, now violating: the
\* score rises from 5 to 6 and the label from medium to high
C6_Witness ==
    /\ other_calls
    /\ first.features["hardness"] = None
    /\ features = [first.features EXCEPT !["hardness"] = ViolatingValue["hardness"]]
    /\ assessment.score = first.assessment.score + 1
    /\ Rank(assessment.risk_level) > Rank(first.assessment.risk_level)

\* C7: possible_bacteria holds no name twice, holds exactly the organisms of
\* the triggered violations, and orders them by first occurrence in the scan
\* of the violations in order, each violation's organisms in listed order.
C7_PossibleBacteria ==
    Called =>
        LET pb == assessment.possible_bacteria
            flat == Flatten(assessment.violations, 1)
        IN  /\ \A i, j \in 1..Len(pb) : pb[i] = pb[j] => i = j
            /\ {pb[i] : i \in 1..Len(pb)} = {flat[i] : i \in 1..Len(flat)}
            /\ \A i, j \in 1..Len(pb) :
                  i < j => FirstIndex(flat, pb[i]) < FirstIndex(flat, pb[j])

\* At least three violations that share organisms
C7_Witness ==
    /\ Called
    /\ Len(assessment.violations) >= 3
    /\ Len(assessment.possible_bacteria) < Len(Flatten(assessment.violations, 1))

Supplied(fs) ==
    [f \in {g \in Fields : fs[g] # None /\ fs[g].kind = "num"} |-> fs[f]]

\* C24: a field whose value is null, NaN, +inf or -inf is skipped: the score,
\* the violations, the organisms and the label of every call are those of the
\* call on the feature dict without these fields, however many they are, and
\* the call returns an assessment.
C24_NullAndNonFiniteSkipped ==
    Called =>
        LET absent == assess_microbial_risk_rules(Supplied(features))
        IN  /\ assessment.score = absent.score
            /\ assessment.violations = absent.violations
            /\ assessment.risk_level = absent.risk_level
            /\ assessment.possible_bacteria = absent.possible_bacteria
            /\ assessment.risk_level \in {"low", "medium", "high"}
            /\ \A i \in 1..Len(assessment.violations) :
                    assessment.violations[i].value.kind = "num"

\* A call with an infinite value above a threshold, null fields and a
\* violation in the fields that are left
C24_Witness ==
    /\ Called
    /\ features["hardness"] = PosInf
    /\ \E f \in Fields : features[f] = None
    /\ DOMAIN Supplied(features) # Fields
    /\ assessment.score > 0
    /\ assessment.score = assess_microbial_risk_rules(Supplied(features)).score

\* C25: _compute_risk of the backfill tool mirrors the rule engine of the
\* service: for every row whose nine fields are each null or a number, it
\* returns the label score_to_risk_label gives the score of
\* compute_microbial_score on the same row, and the two maximum scores are 14.
C25_BackfillMirrorsEngine ==
    /\ backfill_MAX_SCORE = 14 /\ _MAX_SCORE = 14
    /\ Called =>
            /\ _compute_risk(features) =
                    score_to_risk_label(compute_microbial_score(features).score)
            /\ _compute_risk(features) = assessment.risk_level

\* A row with a non-finite cell and null cells that both label medium
C25_Witness ==
    /\ Called
    /\ \E f \in Fields : features[f].kind \in {"nan", "inf", "-inf"}
    /\ \E f \in Fields : features[f] = None
    /\ _compute_risk(features) = "medium"
    /\ assessment.risk_level = "medium"

---------------------------------------------------------------------------
(* Properties of predict *)

\* C3: the max_score of every assessment and of every prediction result is
\* 14, whatever fields the sample supplies.
C3_MaxScoreStatic ==
    /\ assessment # NoAssessment => assessment.max_score = 14
    /\ prediction.status = "ok" => prediction.microbial_max_score = 14

\* A prediction for the sample that supplies no field
C3_Witness ==
    /\ prediction.status = "ok"
    /\ features = AllNull
    /\ assessment.max_score = 14
    /\ prediction.microbial_max_score = 14

\* The label of the class the fitted classifier predicts for fs: the class, of
\* those it learned, with the highest probability (the lowest on a tie)
ClassifierLabel(p, fs) ==
    LET row == [f \in Fields |-> IF fs[f] = None THEN NaN ELSE fs[f]]
        idx == argmax(predict_proba(p.pipeline, row))
    IN  inverse_transform(p.pipeline.classes[idx + 1])

\* What a result of predict takes from the rule engine and from the predictor
MergesRules ==
    /\ prediction.microbial_score = assessment.score
    /\ prediction.microbial_max_score = assessment.max_score
    /\ prediction.microbial_violations = as_dict(assessment).microbial_violations
    /\ prediction.possible_bacteria = assessment.possible_bacteria
    /\ prediction.predicted_by_model = TRUE
    /\ prediction.model_version = "microbial_rf_v1"

\* C10: in every result of predict the risk level is the classifier's
\* predicted label, also when the rule engine's label differs; score, max
\* score, violations and organisms are those of the rule engine on the same
\* features; predicted_by_model is true and model_version is microbial_rf_v1.
C10_PredictMerges ==
    prediction.status = "ok" =>
        /\ prediction.microbial_risk_level = ClassifierLabel(predictor, features)
        /\ assessment = assess_microbial_risk_rules(features)
        /\ MergesRules

\* The same for the predictors whose training data held all three classes
C10_WhenAllClassesLearned ==
    (prediction.status = "ok" /\ Len(predictor.pipeline.classes) = Len(RISK_LABELS)) =>
        /\ prediction.microbial_risk_level = ClassifierLabel(predictor, features)
        /\ assessment = assess_microbial_risk_rules(features)
        /\ MergesRules

\* What holds of every result: the part of C10 that is about the rule engine
C10_RulePartOnly ==
    prediction.status = "ok" =>
        /\ assessment = assess_microbial_risk_rules(features)
        /\ MergesRules

\* C11: a failure of the persistence step inside predict never reaches the
\* caller: every call of predict on features the pipeline accepts returns the
\* result it returns when persistence succeeds or is disabled.
C11_PersistenceNeverPropagates ==
    (prediction # NoPrediction /\ prediction # ValueError) =>
        /\ prediction.status = "ok"
        /\ prediction = predict_call(predictor, features, NoClient)
        /\ prediction = predict_call(predictor, features, Client)

\* What holds instead: the caller gets the result unless the collaborator
\* failed, and then it gets the collaborator's exception
C11_PropagatesOnlyFailure ==
    (prediction # NoPrediction /\ prediction # ValueError) =>
        \/ prediction = PersistenceError
        \/ /\ prediction.status = "ok"
           /\ prediction = predict_call(predictor, features, NoClient)
           /\ prediction = predict_call(predictor, features, Client)

\* The encoder's side of C19: the encoding is the fixed position in
\* (low, medium, high), and decoding inverts it
FixedEncoding ==
    /\ transform("low") = 0 /\ transform("medium") = 1 /\ transform("high") = 2
    /\ \A idx \in 0..2 : transform(inverse_transform(idx)) = idx

\* C19: the label encoding is fixed, never learned from the data: low, medium
\* and high encode to 0, 1 and 2 for every training dataset, also one that
\* lacks a class, predict decodes 0, 1, 2 back to low, medium, high, and so the
\* probability map of every result has exactly the keys low, medium, high.
C19_FixedLabelSpace ==
    /\ FixedEncoding
    /\ prediction.status = "ok" =>
            DOMAIN prediction.microbial_risk_probabilities = {"low", "medium", "high"}

\* What holds instead: the map has one key per class the classifier learned
\* from the data, the labels that decode the positions of its columns
C19_KeysOfLearnedClasses ==
    /\ FixedEncoding
    /\ prediction.status = "ok" =>
            DOMAIN prediction.microbial_risk_probabilities =
                {inverse_transform(i - 1) : i \in 1..Len(predictor.pipeline.classes)}

Probas(p, fs) ==
    predict_proba(p.pipeline, [f \in Fields |-> IF fs[f] = None THEN NaN ELSE fs[f]])

\* What holds of every result, part one: the risk level decodes the position
\* of the first maximum among the columns of predict_proba, and no entry of
\* the map is larger than the risk level's
ArgMaxOfReturnedMap ==
    LET probas == Probas(predictor, features)
        map == prediction.microbial_risk_probabilities
        level == prediction.microbial_risk_level
    IN  /\ level = RISK_LABELS[argmax(probas) + 1]
        /\ level \in DOMAIN map
        /\ \A c \in DOMAIN map : ~Gt(map[c], map[level])
        /\ \A i \in 1..Len(probas) : ~Gt(probas[i], probas[transform(level) + 1])
        /\ \A i \in 1..transform(level) : Lt(probas[i], probas[transform(level) + 1])

\* C23: in every result of predict the risk level is the arg-max class of
\* the classifier's three-way distribution, the lowest class on a tie: no
\* class of the probability map has a larger rounded probability than the
\* risk level, and the map holds one probability for each of low, medium
\* and high.
C23_ArgMaxOfThreeClasses ==
    prediction.status = "ok" =>
        /\ ArgMaxOfReturnedMap
        /\ Len(Probas(predictor, features)) = 3
        /\ DOMAIN prediction.microbial_risk_probabilities = {"low", "medium", "high"}

\* What holds instead: the arg-max part, over the classes the classifier
\* learned
C23_ArgMaxOfLearnedClasses ==
    prediction.status = "ok" =>
        /\ ArgMaxOfReturnedMap
        /\ Len(Probas(predictor, features)) = Len(predictor.pipeline.classes)
        /\ Cardinality(DOMAIN prediction.microbial_risk_probabilities) =
               Len(predictor.pipeline.classes)

---------------------------------------------------------------------------
(* Properties of the training labels *)

\* The nine features of row i of the file, a missing cell or column being null
FeaturesOfRow(csv, i) ==
    [f \in Fields |->
        LET c == IF f \in columns(csv) THEN f
                 ELSE CHOOSE old \in DOMAIN COLUMN_MAP : COLUMN_MAP[old] = f
        IN  IF c \notin columns(csv) \/ csv[i][c].kind = "nan" THEN None
            ELSE csv[i][c]]

\* C20: the label of every row of the training frame is the risk level that
\* assess_microbial_risk_rules returns for the row's nine features (a missing
\* cell or column being null), so it depends on these features only: not on
\* the potability flag, on other rows or on the row's position.
C20_LabelsFollowRules ==
    frame # NoFrame =>
        /\ Len(frame) = Len(dataset)
        /\ \A i \in 1..Len(frame) :
               frame[i]["microbial_risk"] =
                   assess_microbial_risk_rules(FeaturesOfRow(dataset, i)).risk_level
        /\ \A i, j \in 1..Len(frame) :
               FeaturesOfRow(dataset, i) = FeaturesOfRow(dataset, j)
                   => frame[i]["microbial_risk"] = frame[j]["microbial_risk"]

\* A labelled frame of a file in the historical layout without its turbidity
\* column: two rows with the same features and different potability flags,
\* and a row with another label
C20_Witness ==
    /\ frame # NoFrame
    /\ "Turbidity" \notin columns(dataset) /\ "Potability" \in columns(dataset)
    /\ \E i, j, k \in 1..Len(frame) :
           /\ FeaturesOfRow(dataset, i) = FeaturesOfRow(dataset, j)
           /\ dataset[i]["Potability"] # dataset[j]["Potability"]
           /\ frame[i]["microbial_risk"] = "high"
           /\ frame[k]["microbial_risk"] = "low"

---------------------------------------------------------------------------
(* Properties of the service *)

\* A fully constructed predictor: pipeline fitted, version and table set
FullyConstructed(instance) ==
    /\ instance.id > 0
    /\ instance.object.trained
    /\ instance.object.pipeline = Constructed[dataset].pipeline
    /\ instance.object.model_version = "microbial_rf_v1"
    /\ instance.object.samples_table = supabase_samples_table

\* The threads to which get_microbial_risk_predictor() has returned
Holding == {t \in Threads : threads[t].predictor # NoInstance}

\* The threads whose request has been answered
Answered == {t \in Threads : threads[t].pc = "done"}

\* C12: when several callers call get_microbial_risk_predictor concurrently
\* while nothing is cached, at most one training run occurs in the process.
C12_OneTrainingRun ==
    /\ history.trainings <= 1
    /\ Cardinality({t \in Threads : threads[t].pc = "train"}) <= 1

\* C13: every call of get_microbial_risk_predictor that returns, returns a
\* fully constructed predictor, and all calls of the process, also those that
\* race on the first access, return the same single instance.
C13_SameCompleteInstance ==
    /\ \A t \in Holding : FullyConstructed(threads[t].predictor)
    /\ Cardinality(history.returned) <= 1
    /\ \A t, u \in Holding : threads[t].predictor.id = threads[u].predictor.id

\* What holds of every call that returns: the predictor is fully constructed,
\* and it is the cached instance unless the call itself constructed another
C13_CompleteInstances ==
    /\ \A t \in Holding :
          /\ FullyConstructed(threads[t].predictor)
          /\ ~threads[t].constructs => threads[t].predictor = cache
    /\ cache # NoInstance => FullyConstructed(cache)

\* C14, the states: the cache is empty or holds a fully constructed
\* predictor, and the calls of get_microbial_risk_predictor made once it holds
\* one return that predictor without constructing
C14_TwoStates ==
    /\ cache = NoInstance \/ FullyConstructed(cache)
    /\ cache = NoInstance => history.returned = {}
    /\ \A t \in Holding : ~threads[t].constructs => threads[t].predictor = cache

\* C14: the pipeline is uninitialized or trained; the only transition is from
\* uninitialized to trained, and once trained no call of
\* get_microbial_risk_predictor or predict makes it uninitialized, retrains it
\* or replaces it: the cached predictor stays the same object with the same
\* pipeline, and a call that finds it does not construct.
C14_TrainedForGood ==
    [][ /\ C14_TwoStates
        /\ cache # NoInstance =>
              /\ cache' = cache
              /\ \A t \in Threads :
                    threads[t].pc = "get" => threads'[t].pc \notin {"init", "train"} ]_vars

\* Two first calls raced, both trained, and the cache kept the first instance
C14_Witness ==
    /\ history.trainings = 2
    /\ cache.id = 1
    /\ \E t \in Threads : threads[t].pc = "done" /\ threads[t].predictor.id = 2
    /\ \E t \in Threads :
          /\ threads[t].pc = "done" /\ ~threads[t].constructs
          /\ threads[t].predictor = cache /\ threads[t].response.status_code = 200

\* C15: no prediction is served without a trained pipeline: without the
\* dataset file the construction raises FileNotFoundError before any
\* training, nothing is cached or returned, predict is not reached, and every
\* request is answered with a server error, never with a result.
C15_NoPredictionUntrained ==
    /\ dataset = Absent =>
          /\ history.trainings = 0 /\ history.returned = {}
          /\ cache = NoInstance
          /\ \A t \in Threads :
                /\ threads[t].pc \notin {"train", "route"}
                /\ threads[t].predictor = NoInstance
                /\ threads[t].pc = "done" =>
                      /\ threads[t].raised = "FileNotFoundError"
                      /\ threads[t].response.status_code = 500
                      /\ threads[t].response.body = <<>>
    /\ \A t \in Answered :
          threads[t].response.body # <<>> =>
              /\ FullyConstructed(threads[t].predictor)
              /\ threads[t].response.body =
                     predict(threads[t].predictor.object, threads[t].payload)

\* Without the file, a request with two fields was answered with a 500
C15_Witness ==
    /\ dataset = Absent
    /\ \E t \in Threads :
          /\ threads[t].pc = "done"
          /\ threads[t].payload = ExampleTwoViolations
          /\ threads[t].raised = "FileNotFoundError"
          /\ threads[t].response.status_code = 500

\* C16: the missing-dataset error is raised once, at the first
\* initialization: later calls of get_microbial_risk_predictor do not attempt
\* the construction again and raise again, and a failed initialization is
\* never followed by a trained state.
C16_RaisedOnce ==
    /\ history.failed <= 1
    /\ history.failed > 0 => history.constructions <= 1 /\ cache = NoInstance

\* What holds instead: every call made without the file attempts the
\* construction and raises
C16_RaisedByEveryCall ==
    dataset = Absent =>
        /\ history.failed = history.constructions
        /\ history.failed =
               Cardinality({t \in Threads : threads[t].pc = "done"})
               + (history.requests
                    - Cardinality({t \in Threads : threads[t].pc # "idle"}))

\* C17: a request with fewer than two non-null fields is rejected with a 400
\* before the core is invoked: it triggers neither predict nor the
\* construction and training of the predictor.
C17_RejectedBeforeCore ==
    \A t \in Threads :
        Cardinality(provided(threads[t].payload)) < 2 =>
            /\ ~threads[t].constructs
            /\ threads[t].pc \notin {"init", "train"}
            /\ threads[t].pc = "done" =>
                  /\ threads[t].response.status_code = 400
                  /\ threads[t].response.body = <<>>

\* What holds instead: such a request never gets a result, and gets the 400
\* once the predictor is there
C17_RejectedBeforePredict ==
    \A t \in Answered :
        Cardinality(provided(threads[t].payload)) < 2 =>
            /\ threads[t].response.body = <<>>
            /\ threads[t].response.status_code = IF dataset = Absent THEN 500 ELSE 400

\* C18: a ValueError of predict becomes a 400; every other failure (the
\* FileNotFoundError of the construction, any other exception of predict)
\* does not become a 4xx and is answered with a 5xx.
C18_ErrorTranslation ==
    \A t \in Answered :
        LET fs == threads[t].payload
            refused == \E f \in Fields : fs[f].kind \in {"inf", "-inf"}
        IN  /\ (dataset # Absent /\ Cardinality(provided(fs)) >= 2 /\ refused)
                  => /\ threads[t].raised = "ValueError"
                     /\ threads[t].response.status_code = 400
            /\ threads[t].raised = "ValueError" => threads[t].response.status_code = 400
            /\ threads[t].raised \in {"FileNotFoundError", "Exception"}
                  => threads[t].response.status_code = 500
            /\ (dataset # Absent /\ Cardinality(provided(fs)) >= 2 /\ ~refused)
                  => threads[t].response.status_code \in {200, 500}
            /\ dataset = Absent => threads[t].response.status_code = 500
            /\ threads[t].response.status_code \in {200, 400, 500}
            /\ threads[t].response.status_code = 200 <=> threads[t].response.body # <<>>

\* One request got a 400 for an infinite value while another got a 500 for
\* the failure of the persistence step
C18_Witness ==
    \E t, u \in Answered :
        /\ threads[t].payload = InfiniteField
        /\ threads[t].response.status_code = 400
        /\ threads[u].payload = ExampleTwoViolations
        /\ threads[u].raised = "Exception"
        /\ threads[u].response.status_code = 500

---------------------------------------------------------------------------
(* Properties of the backfill tool *)

\* The pages requested so far are the consecutive ranges of BATCH_SIZE rows
\* from offset 0, every page before the last one was full, and the rows
\* collected are the rows of these pages, each once, in table order
PagesInOrder ==
    LET n == Len(fetch.table)
        k == Len(fetch.requested)
    IN  /\ \A j \in 1..k :
              fetch.requested[j] =
                  [from |-> (j - 1) * BATCH_SIZE, to |-> j * BATCH_SIZE - 1]
        /\ k <= n \div BATCH_SIZE + 1
        /\ fetch.pc = "fetch" =>
              /\ k * BATCH_SIZE <= n
              /\ fetch.offset = k * BATCH_SIZE
              /\ fetch.all_rows = [i \in 1..(k * BATCH_SIZE) |-> fetch.table[i]]
        /\ fetch.pc = "returned" =>
              /\ k = n \div BATCH_SIZE + 1
              /\ fetch.all_rows = fetch.table

\* C26: on a table of N rows that does not change, _fetch_all_rows ends and
\* returns every row once, in table order: it requests the consecutive
\* ranges of 500 rows from offset 0 and stops at the first page that is empty
\* or short, which is one extra, empty page when N is a multiple of 500.
C26_FetchesEveryRowOnce ==
    /\ []PagesInOrder
    /\ <>(fetch.pc = "returned")

\* A table of exactly two full pages read with a third, empty page
C26_Witness ==
    /\ fetch.pc = "returned"
    /\ Len(fetch.table) = 2 * BATCH_SIZE
    /\ Len(fetch.requested) = 3
    /\ fetch.requested[3] = [from |-> 1000, to |-> 1499]
    /\ fetch.all_rows = fetch.table

\* C27: _update_rows sends the update of every row once, in list order; a
\* failing update neither ends the loop nor skips a row; the number returned
\* is the number of rows whose update did not raise, between 0 and the
\* number of rows.
C27_EveryRowAttempted ==
    LET n == Len(update.updates)
    IN  /\ update.attempted = [j \in 1..Len(update.attempted) |-> update.updates[j]]
        /\ update.raised \subseteq {update.attempted[j].id : j \in 1..Len(update.attempted)}
        /\ update.success = Len(update.attempted) - Cardinality(update.raised)
        /\ update.pc = "returned" =>
              /\ update.attempted = update.updates
              /\ update.returned = n - Cardinality(update.raised)
              /\ 0 <= update.returned /\ update.returned <= n

\* Three rows of which the second failed: all three were sent, two count
C27_Witness ==
    /\ update.pc = "returned"
    /\ Len(update.updates) = 3
    /\ update.raised = {update.updates[2].id}
    /\ update.attempted = update.updates
    /\ update.returned = 2

---------------------------------------------------------------------------
(* Properties of the retry wrappers *)

\* The runs of _call_with_retry of the process: those over, and the latest
Runs ==
    {retry.completed[i] : i \in 1..Len(retry.completed)}
        \cup (IF retry.run.pc = "idle" THEN {} ELSE {retry.run})

\* The rate-limit error of each service
RateLimited(r, outcome) ==
    IF r.wrapper = "gemini" THEN outcome = ClientError(429)
    ELSE outcome = RateLimitError

===========================================================================
